---- MODULE Spec2Model ----
(***************************************************************************)
(* A model of lib/scylla_cloud.py: the bounded-retry metadata fetcher      *)
(* (curl), the provider detector (get_cloud_instance), and the three       *)
(* provider instance classes (gcp_instance, azure_instance, aws_instance)  *)
(* with their disk discovery, disk-count reconciliation and suitability    *)
(* verdict.                                                                *)
(*                                                                         *)
(* Python strings are TLA+ strings and are taken apart character by        *)
(* character (Len, SubSeq, \o); Python lists whose order the program never *)
(* looks at (directory listings, mount tables) are sets.                   *)
(***************************************************************************)
EXTENDS Integers, Sequences, FiniteSets, TLC

VARIABLES
    \* ---- curl ----
    script,        \* what the transport does on the 1st, 2nd, ... urlopen
    max_retries,   \* curl's max_retries argument
    curl_result,   \* NotCalled, or what the call to curl ended with
    \* ---- a provider instance and the host it runs on ----
    env,           \* the host: /dev, the mount table, sysfs, the metadata service
    provider,      \* the class of `self`: "gcp", "azure" or "aws"
    self,          \* the instance's attributes (NoObject before construction)
    ret,           \* per accessor, how its last call ended
    \* ---- get_cloud_instance ----
    dns,           \* what the resolver answers for the providers' metadata names
    pc,            \* where get_cloud_instance stands
    probes,        \* the probes run so far, in order, with their answers
    built          \* the classes get_cloud_instance has called, in order

curl_vars == <<script, max_retries, curl_result>>
inst_vars == <<env, provider, self, ret>>
det_vars == <<dns, pc, probes, built>>

vars == <<curl_vars, inst_vars, det_vars>>

None == "None"

\* A call that has not been made yet.
NotCalled == [kind |-> "none"]

\* A `return v` and a `raise e`.
Return(v) == [kind |-> "return", val |-> v]
Raise(e) == [kind |-> "raise", exc |-> e]

\* An attribute holding Python's None is the empty set, one holding v is {v}.
Some(v) == {v}
The(c) == CHOOSE v \in c : TRUE

Min(a, b) == IF a < b THEN a ELSE b

(***************************************************************************)
(* Strings                                                                 *)
(***************************************************************************)
Ch(s, i) == SubSeq(s, i, i)

\* str.startswith
startswith(s, p) == Len(p) <= Len(s) /\ SubSeq(s, 1, Len(p)) = p

(***************************************************************************)
(* curl: the metadata fetcher                                              *)
(***************************************************************************)
\* Longest transport script drawn; one more than the default retry budget,
\* so that an attempt past the budget would be seen.
ScriptLen == 6

DEFAULT_MAX_RETRIES == 5
AWS_PROBE_MAX_RETRIES == 2

\* What one urlopen()/read() can do: answer, fail at transport level
\* (urllib.error.URLError), answer with an HTTP error status
\* (urllib.error.HTTPError), or time out while reading the body
\* (socket.timeout, which is not a URLError).
Outcomes == {"ok", "URLError", "HTTPError", "timeout"}

Scripts == [1..ScriptLen -> Outcomes]

\* The transport's answer to the attempt-th request; past the script it answers.
Outcome(s, attempt) == IF attempt \in DOMAIN s THEN s[attempt] ELSE "ok"

\* `except urllib.error.URLError` catches URLError and its subclasses;
\* urllib.error.HTTPError derives from URLError.
except_URLError(e) == e \in {"URLError", "HTTPError"}

\* (a retry budget checked one failure too late)
budget_exhausted_late(retries, max) == retries > max

\* `if retries >= max_retries: raise`
budget_exhausted(retries, max) == retries >= max

\* The while loop of curl, entered with `retries` failures behind it and about
\* to make request number `attempt`.  The result tells how the call ended,
\* with which exception, after how many requests and how many sleeps.
RECURSIVE curl_loop(_, _, _, _)
curl_loop(s, max, retries, attempt) ==
    LET o == Outcome(s, attempt) IN
    IF o = "ok"
    THEN [kind |-> "return", exc |-> None, attempts |-> attempt, sleeps |-> retries]
    ELSE IF except_URLError(o)
    THEN IF budget_exhausted(retries + 1, max)
         THEN [kind |-> "raise", exc |-> o, attempts |-> attempt, sleeps |-> retries + 1]
         ELSE curl_loop(s, max, retries + 1, attempt + 1)
    ELSE [kind |-> "raise", exc |-> o, attempts |-> attempt, sleeps |-> retries]

curl(s, max) == curl_loop(s, max, 0, 1)

\* No instance under study.
NoObject == [cls |-> "none"]
NoEnv == [dev |-> {}]
NoRet == [op \in {} |-> NotCalled]

inst_Idle == provider = "none" /\ env = NoEnv /\ self = NoObject /\ ret = NoRet

\* get_cloud_instance is not running.
det_Idle == dns = <<>> /\ pc = "idle" /\ probes = <<>> /\ built = <<>>

\* curl is not running.
curl_Idle == script = <<>> /\ max_retries = DEFAULT_MAX_RETRIES /\ curl_result = NotCalled

curl_Init ==
    /\ inst_Idle /\ det_Idle
    /\ script \in Scripts
    /\ max_retries \in {DEFAULT_MAX_RETRIES, AWS_PROBE_MAX_RETRIES}
    /\ curl_result = NotCalled

\* One call of curl against the transport.
Curl ==
    /\ curl_result = NotCalled
    /\ curl_result' = curl(script, max_retries)
    /\ UNCHANGED <<script, max_retries, inst_vars, det_vars>>

SpecCurl == curl_Init /\ [][Curl]_vars

\* The first n requests all fail with e.
FailsFirst(s, n, e) == \A i \in 1..n : Outcome(s, i) = e

\* C1: with the default budget of 5, a transport that fails at transport
\* level exactly 4 times and then answers makes curl return the answer (on
\* the 5th request); one that fails 5 times in a row makes curl raise the
\* transport error after exactly 5 requests, never a 6th.
C1_RetryBudget ==
    (curl_result.kind # "none" /\ max_retries = DEFAULT_MAX_RETRIES) =>
        /\ (FailsFirst(script, 4, "URLError") /\ Outcome(script, 5) = "ok") =>
               (curl_result.kind = "return" /\ curl_result.attempts = 5)
        /\ FailsFirst(script, 5, "URLError") =>
               /\ curl_result.kind = "raise"
               /\ curl_result.exc = "URLError"
               /\ curl_result.attempts = 5
        /\ curl_result.attempts <= 5

C1_Witness ==
    /\ curl_result.kind # "none"
    /\ max_retries = DEFAULT_MAX_RETRIES
    /\ FailsFirst(script, 5, "URLError")
    /\ curl_result.kind = "raise"

\* C2: an HTTP-level error is not retried: it reaches the caller after
\* exactly one request and without any backoff sleep.
C2_HttpErrorNotRetried ==
    (curl_result.kind # "none" /\ Outcome(script, 1) = "HTTPError") =>
        /\ curl_result.kind = "raise"
        /\ curl_result.exc = "HTTPError"
        /\ curl_result.attempts = 1
        /\ curl_result.sleeps = 0

(***************************************************************************)
(* More of Python's str and re                                             *)
(***************************************************************************)
Digits == {"0", "1", "2", "3", "4", "5", "6", "7", "8", "9"}
LettersBtoZ == {"b", "c", "d", "e", "f", "g", "h", "i", "j", "k", "l", "m", "n",
                "o", "p", "q", "r", "s", "t", "u", "v", "w", "x", "y", "z"}

\* The index just past the longest run of characters of cs that starts at s[i]
\* (a greedy `[cs]*`).
RECURSIVE span(_, _, _)
span(s, i, cs) == IF i <= Len(s) /\ Ch(s, i) \in cs THEN span(s, i + 1, cs) ELSE i

\* str.lstrip(chars): drops leading characters as long as they are in chars.
RECURSIVE lstrip(_, _)
lstrip(s, chars) ==
    IF Len(s) > 0 /\ Ch(s, 1) \in chars THEN lstrip(SubSeq(s, 2, Len(s)), chars) ELSE s

\* str.replace(old, new), every occurrence, left to right.
RECURSIVE replace(_, _, _)
replace(s, old, new) ==
    IF Len(s) < Len(old) THEN s
    ELSE IF startswith(s, old)
    THEN new \o replace(SubSeq(s, Len(old) + 1, Len(s)), old, new)
    ELSE Ch(s, 1) \o replace(SubSeq(s, 2, Len(s)), old, new)

\* str.split(delim): the pieces between the delimiters, at least one piece.
RECURSIVE split_from(_, _, _, _)
split_from(s, delim, start, i) ==
    IF i > Len(s) THEN <<SubSeq(s, start, Len(s))>>
    ELSE IF Ch(s, i) = delim
    THEN <<SubSeq(s, start, i - 1)>> \o split_from(s, delim, i + 1, i + 1)
    ELSE split_from(s, delim, start, i + 1)

split(s, delim) == split_from(s, delim, 1, 1)

\* os.path.join("/dev/", x)
os_path_join(dir, x) == IF startswith(x, "/") THEN x ELSE dir \o x

\* re.compile(r"nvme\d+n\d+$").match(s): the end of the controller part
\* ("nvme" and its digits) when s matches, 0 when it does not.
nvme_re_match(s) ==
    IF ~startswith(s, "nvme") THEN 0
    ELSE LET a == span(s, 5, Digits) IN
         IF a = 5 \/ a > Len(s) \/ Ch(s, a) # "n" THEN 0
         ELSE LET b == span(s, a + 1, Digits) IN
              IF b > a + 1 /\ b = Len(s) + 1 THEN a - 1 ELSE 0

\* re.compile(r"/dev/sd[b-z]+$").match(s)
disk_re_match(s) ==
    /\ startswith(s, "/dev/sd")
    /\ LET b == span(s, 8, LettersBtoZ) IN b > 8 /\ b = Len(s) + 1

(***************************************************************************)
(* The host: what the OS and the metadata service show                     *)
(***************************************************************************)
\* NVMe controllers nvme0 .. nvme<NvmeCtrls-1>, each with the namespace n1.
NvmeCtrls == 2
DigitOf == <<"0", "1", "2", "3", "4", "5", "6", "7", "8", "9">>
NvmeCtrl(i) == "nvme" \o DigitOf[i + 1]
NvmeNames == {NvmeCtrl(i) \o "n1" : i \in 0..(NvmeCtrls - 1)}

\* The names /dev can hold: NVMe namespaces, a partition of the first one
\* and SCSI disks.
DevNames == NvmeNames \cup {"nvme0n1p1", "sda", "sdb"}

\* The devices the mount table can show at "/".
RootDevices == {"/dev/sda1", "/dev/sdb1", "/dev/nvme0n1p1"}

\* psutil.disk_partitions() filtered on mountpoint == "/": the devices.
root_dev_candidates(e) == e.mounts

\* os.listdir("/dev") and glob.glob("/dev/sd*")
listdir_dev(e) == e.dev
glob_dev_sd(e) == {"/dev/" \o n : n \in {m \in e.dev : startswith(m, "sd")}}

\* os.path.exists(path) for a path under /dev
path_exists(e, path) == path \in ({"/dev", "/dev/"} \cup {"/dev/" \o n : n \in e.dev})

(***************************************************************************)
(* Metadata fetches                                                        *)
(***************************************************************************)
\* How a metadata fetch (curl with the default budget) can end, whatever the
\* transport does: "ok" when curl returns, else the exception it raises.
FetchEnds == {IF r.kind = "return" THEN "ok" ELSE r.exc :
                 r \in {curl(s, DEFAULT_MAX_RETRIES) : s \in Scripts}}

(***************************************************************************)
(* gcp_instance: disk discovery                                            *)
(***************************************************************************)
\* gcp_instance.__init__
gcp_init ==
    [cls |-> "gcp_instance", type |-> {}, cpu |-> {}, memoryGB |-> {},
     nvmeDiskCount |-> {}, firstNvmeSize |-> {}, osDisks |-> {}]

\* (a root filter that compares names for equality instead of by prefix)
is_in_root_devs_exact(x, root_devs) ==
    \E root_dev \in root_devs : root_dev = os_path_join("/dev/", x)

is_in_root_devs(x, root_devs) ==
    \E root_dev \in root_devs : startswith(root_dev, os_path_join("/dev/", x))

\* gcp_instance._non_root_nvmes
gcp_non_root_nvmes(e) ==
    LET root_devs == root_dev_candidates(e)
        nvmes_present == {x \in listdir_dev(e) : nvme_re_match(x) # 0}
    IN  [root |-> root_devs,
         ephemeral |-> {x \in nvmes_present : ~is_in_root_devs(x, root_devs)}]

\* gcp_instance._non_root_disks
gcp_non_root_disks(e) ==
    LET root_devs == root_dev_candidates(e)
        disks_present == {x \in glob_dev_sd(e) : disk_re_match(x)}
        strip(x) == lstrip(x, {"/", "d", "e", "v"})
    IN  [persistent |->
            {strip(x) : x \in {y \in disks_present : ~is_in_root_devs(strip(y), root_devs)}}]

\* (an os_disks that looks at the host in every call)
gcp_os_disks_uncached(o, e) ==
    LET nvmes_present == gcp_non_root_nvmes(e)
        disks_present == gcp_non_root_disks(e)
        osDisks == [root |-> nvmes_present.root,
                    ephemeral |-> nvmes_present.ephemeral,
                    persistent |-> disks_present.persistent]
    IN  [self |-> [o EXCEPT !.osDisks = Some(osDisks)], ret |-> Return(osDisks)]

\* The property gcp_instance.os_disks: the instance afterwards and the result.
gcp_os_disks(o, e) ==
    IF o.osDisks # {} THEN [self |-> o, ret |-> Return(The(o.osDisks))]
    ELSE LET nvmes_present == gcp_non_root_nvmes(e)
             disks_present == gcp_non_root_disks(e)
             osDisks == [root |-> nvmes_present.root,
                         ephemeral |-> nvmes_present.ephemeral,
                         persistent |-> disks_present.persistent]
         IN  [self |-> [o EXCEPT !.osDisks = Some(osDisks)], ret |-> Return(osDisks)]

gcp_get_local_disks(o, e) ==
    LET r == gcp_os_disks(o, e) IN [self |-> r.self, ret |-> Return(r.ret.val.ephemeral)]

gcp_get_remote_disks(o, e) ==
    LET r == gcp_os_disks(o, e) IN [self |-> r.self, ret |-> Return(r.ret.val.persistent)]

\* gcp_instance.isNVME on one entry of the metadata's disk list; an entry
\* without "interface" raises KeyError.
isNVME(gcpdiskobj) == gcpdiskobj = "NVME"

\* (a reading of the disk list that skips the entries it cannot classify)
gcp_get_nvme_disks_from_metadata_lenient(e, net) ==
    IF net # "ok" THEN <<>>
    ELSE IF ~e.disks_json.ok THEN <<>>
    ELSE SelectSeq(e.disks_json.disks, isNVME)

\* gcp_instance.__get_nvme_disks_from_metadata, the fetch of "disks" ending
\* as `net`: any exception (the fetch's, json.loads', isNVME's KeyError) is
\* caught and gives the empty collection.
gcp_get_nvme_disks_from_metadata(e, net) ==
    IF net # "ok" THEN <<>>
    ELSE IF ~e.disks_json.ok THEN <<>>
    ELSE IF \E i \in DOMAIN e.disks_json.disks : e.disks_json.disks[i] = "absent" THEN <<>>
    ELSE SelectSeq(e.disks_json.disks, isNVME)

\* (a reconciliation that trusts the OS count alone)
reconcile_os_only(count_os_disks, count_metadata_nvme_disks) == count_os_disks

\* `count_os_disks if count_os_disks<count_metadata_nvme_disks else count_metadata_nvme_disks`
reconcile(count_os_disks, count_metadata_nvme_disks) ==
    IF count_os_disks < count_metadata_nvme_disks
    THEN count_os_disks ELSE count_metadata_nvme_disks

\* The property gcp_instance.nvme_disk_count.
gcp_nvme_disk_count(o, e, net) ==
    IF o.nvmeDiskCount # {} THEN [self |-> o, ret |-> Return(The(o.nvmeDiskCount))]
    ELSE LET l == gcp_get_local_disks(o, e)
             count_os_disks == Cardinality(l.ret.val)
             count_metadata_nvme_disks == Len(gcp_get_nvme_disks_from_metadata(e, net))
             n == reconcile(count_os_disks, count_metadata_nvme_disks)
         IN  [self |-> [l.self EXCEPT !.nvmeDiskCount = Some(n)], ret |-> Return(n)]

(***************************************************************************)
(* azure_instance: disk discovery                                          *)
(***************************************************************************)
\* azure_instance.__init__
azure_init ==
    [cls |-> "azure_instance", type |-> {}, cpu |-> {}, location |-> {}, zone |-> {},
     memoryGB |-> {}, nvmeDiskCount |-> {}, firstNvmeSize |-> {}, osDisks |-> {}]

\* (a root check that only refuses two or more root devices)
single_root_at_most(candidates) == Cardinality(candidates) <= 1

\* `if len(root_dev_candidates) != 1: raise Exception(...)`
single_root(candidates) == Cardinality(candidates) = 1

\* azure_instance._non_root_nvmes
azure_non_root_nvmes(e) ==
    LET root_devs == root_dev_candidates(e)
        nvmes_present == {x \in listdir_dev(e) : nvme_re_match(x) # 0}
    IN  IF ~single_root(root_devs) THEN Raise("Exception")
        ELSE Return([root |-> root_devs,
                     ephemeral |-> {x \in nvmes_present : ~is_in_root_devs(x, root_devs)}])

\* azure_instance._non_root_disks is gcp_instance._non_root_disks word for word.
azure_non_root_disks(e) == gcp_non_root_disks(e)

\* The property azure_instance.os_disks.
azure_os_disks(o, e) ==
    IF o.osDisks # {} THEN [self |-> o, ret |-> Return(The(o.osDisks))]
    ELSE LET nvmes_present == azure_non_root_nvmes(e) IN
         IF nvmes_present.kind = "raise" THEN [self |-> o, ret |-> nvmes_present]
         ELSE LET osDisks == [root |-> nvmes_present.val.root,
                              ephemeral |-> nvmes_present.val.ephemeral,
                              persistent |-> azure_non_root_disks(e).persistent]
              IN  [self |-> [o EXCEPT !.osDisks = Some(osDisks)], ret |-> Return(osDisks)]

azure_get_local_disks(o, e) ==
    LET r == azure_os_disks(o, e) IN
    [self |-> r.self,
     ret |-> IF r.ret.kind = "raise" THEN r.ret ELSE Return(r.ret.val.ephemeral)]

azure_get_remote_disks(o, e) ==
    LET r == azure_os_disks(o, e) IN
    [self |-> r.self,
     ret |-> IF r.ret.kind = "raise" THEN r.ret ELSE Return(r.ret.val.persistent)]

\* The property azure_instance.instancetype, the fetch of /compute/vmSize
\* ending as `net` when it is made.
azure_instancetype(o, e, net) ==
    IF o.type # {} THEN [self |-> o, ret |-> Return(The(o.type))]
    ELSE IF net # "ok" THEN [self |-> o, ret |-> Raise(net)]
    ELSE [self |-> [o EXCEPT !.type = Some(e.vm_type)], ret |-> Return(e.vm_type)]

\* azure_instance.instance_class: `self.instancetype.split("_")[1]`
azure_instance_class(o, e, net) ==
    LET t == azure_instancetype(o, e, net) IN
    IF t.ret.kind = "raise" THEN t
    ELSE LET parts == split(t.ret.val, "_") IN
         [self |-> t.self,
          ret |-> IF Len(parts) < 2 THEN Raise("IndexError") ELSE Return(parts[2])]

\* azure_instance.instance_purpose: `self.instancetype.split("_")[0]`
azure_instance_purpose(o, e, net) ==
    LET t == azure_instancetype(o, e, net) IN
    IF t.ret.kind = "raise" THEN t
    ELSE [self |-> t.self, ret |-> Return(split(t.ret.val, "_")[1])]

\* azure_instance.instanceToDiskCount
instanceToDiskCount ==
    [L8s |-> 1, L16s |-> 2, L32s |-> 4, L48s |-> 6, L64s |-> 8, L80s |-> 10]

\* (a lookup that takes an unknown class for the smallest known one)
dict_get_one(d, key, default) == IF key \in DOMAIN d THEN d[key] ELSE 1

\* dict.get(key, default)
dict_get(d, key, default) == IF key \in DOMAIN d THEN d[key] ELSE default

\* azure_instance.__get_nvme_disks_count_from_metadata
azure_get_nvme_disks_count_from_metadata(o, e, net) ==
    LET c == azure_instance_class(o, e, net) IN
    IF c.ret.kind = "raise" THEN c
    ELSE [self |-> c.self, ret |-> Return(dict_get(instanceToDiskCount, c.ret.val, 0))]

\* The property azure_instance.nvme_disk_count: a failure of get_local_disks
\* is caught and counts as no disk; a failure to read the instance type is not
\* caught.
azure_nvme_disk_count(o, e, net) ==
    IF o.nvmeDiskCount # {} THEN [self |-> o, ret |-> Return(The(o.nvmeDiskCount))]
    ELSE LET l == azure_get_local_disks(o, e)
             count_os_disks == IF l.ret.kind = "raise" THEN 0 ELSE Cardinality(l.ret.val)
             m == azure_get_nvme_disks_count_from_metadata(l.self, e, net)
         IN  IF m.ret.kind = "raise" THEN m
             ELSE LET n == reconcile(count_os_disks, m.ret.val) IN
                  [self |-> [m.self EXCEPT !.nvmeDiskCount = Some(n)], ret |-> Return(n)]

(***************************************************************************)
(* aws_instance: construction and disk discovery                           *)
(***************************************************************************)
EBS_MODEL == "Amazon Elastic Block Store"
INSTANCE_STORE_MODEL == "Amazon EC2 NVMe Instance Storage"

\* aws_instance.__filter_nvmes: the model string is read from
\* /sys/class/nvme/<controller>/model.
filter_nvmes(e, dev, dev_type) ==
    LET c == nvme_re_match(dev) IN
    IF c = 0 THEN FALSE
    ELSE LET model == e.model[SubSeq(dev, 1, c)] IN
         IF dev_type = "ephemeral" THEN model # EBS_MODEL ELSE model = EBS_MODEL

\* `[x for x in ebs_present if not root_dev.startswith(os.path.join("/dev/", x))]`
not_root(x, root_dev) == ~startswith(root_dev, os_path_join("/dev/", x))

\* The ephemeral list of aws_instance._non_root_nvmes: every NVMe device of
\* /dev that is not an EBS volume (root_dev is not looked at).
ephemeral_non_root(e, root_dev) ==
    {x \in listdir_dev(e) : filter_nvmes(e, x, "ephemeral")}

\* The ebs list of aws_instance._non_root_nvmes.
ebs_non_root(e, root_dev) ==
    {x \in {y \in listdir_dev(e) : filter_nvmes(e, y, "ebs")} : not_root(x, root_dev)}

\* aws_instance._non_root_nvmes; findmnt names the source of "/" when the
\* mount table only says /dev/root.
aws_non_root_nvmes(e) ==
    LET candidates == root_dev_candidates(e) IN
    IF ~single_root(candidates) THEN Raise("Exception")
    ELSE LET dev0 == The(candidates)
             root_dev == IF dev0 = "/dev/root" THEN e.findmnt ELSE dev0
         IN  Return([root |-> {root_dev},
                     ephemeral |-> ephemeral_non_root(e, root_dev),
                     ebs |-> ebs_non_root(e, root_dev)])

\* aws_instance.__device_exists
device_exists(e, dev) ==
    path_exists(e, IF SubSeq(dev, 1, Min(4, Len(dev))) # "/dev" THEN "/dev/" \o dev ELSE dev)

\* aws_instance.__xenify, the value of block-device-mapping/<devname> fetched.
xenify(e, devname) == replace(e.devmap[devname], "sd", "xvd")

\* re.compile("^\D+").match(dev).group(): the leading non-digits of a line of
\* the block-device-mapping listing.
RECURSIVE leading_non_digits(_, _)
leading_non_digits(s, i) ==
    IF i <= Len(s) /\ Ch(s, i) \notin Digits THEN leading_non_digits(s, i + 1)
    ELSE SubSeq(s, 1, i - 1)

\* `if t == "ephemeral" and nvmes_present: continue`: nvmes_present is the
\* dictionary _non_root_nvmes returned, which always has its three keys.
skip_line(t, nvmes_present) == t = "ephemeral" /\ DOMAIN nvmes_present # {}

\* aws_instance.__populate_disks after its two fetches: the _disks dictionary.
populate_disks(e, nvmes_present) ==
    LET lines == {d \in DOMAIN e.devmap :
                     ~skip_line(leading_non_digits(d, 1), nvmes_present)}
        types == {leading_non_digits(d, 1) : d \in lines}
        keys  == DOMAIN nvmes_present \cup types \cup {"ebs"}
        found(t) == {xenify(e, d) :
                        d \in {l \in lines : /\ leading_non_digits(l, 1) = t
                                             /\ device_exists(e, xenify(e, l))}}
    IN  [k \in keys |->
            (IF k \in DOMAIN nvmes_present THEN nvmes_present[k] ELSE {}) \cup found(k)]

\* aws_instance.__init__: fetch instance-type, fetch block-device-mapping,
\* probe the OS, then fetch each listed device's mapping.  The three kinds of
\* fetch end as net.type, net.devmap and net.mapping.
aws_init(e, net) ==
    IF net.type # "ok" THEN Raise(net.type)
    ELSE IF net.devmap # "ok" THEN Raise(net.devmap)
    ELSE LET nvmes_present == aws_non_root_nvmes(e) IN
         IF nvmes_present.kind = "raise" THEN nvmes_present
         ELSE IF net.mapping # "ok" /\
                 \E d \in DOMAIN e.devmap :
                     ~skip_line(leading_non_digits(d, 1), nvmes_present.val)
         THEN Raise(net.mapping)
         ELSE Return([cls |-> "aws_instance", type |-> e.vm_type,
                      disks |-> populate_disks(e, nvmes_present.val)])

\* aws_instance.non_root_disks
aws_non_root_disks(o) == o.disks["ephemeral"] \cup o.disks["ebs"]

\* aws_instance.get_local_disks and get_remote_disks
aws_get_local_disks(o) == Return(o.disks["ephemeral"])
aws_get_remote_disks(o) == Return(o.disks["ebs"])

\* The names Python finds when a function of the module uses a bare name:
\* what the module defines or imports at top level (methods are not among
\* them), then the builtins.
ModuleGlobals ==
    {"json", "logging", "os", "re", "time", "urllib", "psutil", "socket", "glob",
     "run", "DEVNULL", "ABCMeta", "abstractmethod",
     "aws_io_setup", "gcp_io_setup", "azure_io_setup",
     "curl", "cloud_instance", "gcp_instance", "azure_instance", "aws_instance",
     "is_ec2", "is_gce", "is_azure", "get_cloud_instance"}
Builtins == {"len", "set", "list", "int", "str", "print", "filter", "Exception"}

name_defined(name) == name \in ModuleGlobals \cup Builtins

\* The property aws_instance.nvme_disk_count: `return len(non_root_disks)`,
\* the bare name non_root_disks looked up in the module.
aws_nvme_disk_count(o) ==
    IF ~name_defined("non_root_disks") THEN Raise("NameError")
    ELSE Return("len of the module-level non_root_disks")

(***************************************************************************)
(* An instance on its host: construction and the disk accessors            *)
(***************************************************************************)
\* Most devices the mount table shows at "/", and most entries of the disk
\* list of the GCP metadata.
MaxRoots == 2
MaxMdDisks == 2

BoundedSubsets(S, n) == {x \in SUBSET S : Cardinality(x) <= n}

\* An entry of the GCP metadata's disk list, by its "interface" field
\* ("absent": the entry has none).  The lists drawn hold up to MaxMdDisks NVMe
\* entries, then possibly a SCSI entry, then possibly one without interface;
\* the code only filters and counts the list, so the order does not matter.
Repeat(x, n) == [i \in 1..n |-> x]
DisksJsons ==
    {[ok |-> FALSE, disks |-> <<>>]} \cup
    {[ok |-> TRUE, disks |-> Repeat("NVME", n) \o Repeat("SCSI", s) \o Repeat("absent", a)] :
        n \in 0..MaxMdDisks, s \in 0..1, a \in 0..1}

AzureTypes == {"Standard_L8s_v2", "Standard_L16s_v2", "Standard_L32s_v2",
               "Standard_D2s_v3", "Standard_E4_v4"}

AwsRootDevices == {"/dev/xvda1", "/dev/nvme0n1p1", "/dev/root"}
AwsDevNames == NvmeNames \cup {"xvda1", "xvdf"}
NvmeModels == [{NvmeCtrl(i) : i \in 0..(NvmeCtrls - 1)} -> {EBS_MODEL, INSTANCE_STORE_MODEL}]

\* block-device-mapping listings with the value of each entry.
AwsDevmaps ==
    {[ami |-> "sda1", root |-> "/dev/sda1"],
     [ami |-> "sda1", root |-> "/dev/sda1", ebs1 |-> "sdf"],
     [ami |-> "sda1", root |-> "/dev/sda1", ebs1 |-> "sdf", ephemeral0 |-> "sdb"]}

\* The parts of a host a provider's code does not look at.
HostDefaults ==
    [dev |-> {}, mounts |-> {}, findmnt |-> "/dev/xvda1", model |-> <<>>, devmap |-> <<>>,
     disks_json |-> [ok |-> TRUE, disks |-> <<>>], vm_type |-> "",
     ncpu |-> 2, mem_mib |-> 8192, size_mib |-> 0]

HostWith(dev, mounts) == [HostDefaults EXCEPT !.dev = dev, !.mounts = mounts]

GcpHosts ==
    {[HostWith(dev, mounts) EXCEPT !.disks_json = j, !.vm_type = "n2-standard-2"] :
        dev \in SUBSET DevNames, mounts \in BoundedSubsets(RootDevices, MaxRoots),
        j \in DisksJsons}

AzureHosts ==
    {[HostWith(dev, mounts) EXCEPT !.vm_type = t] :
        dev \in SUBSET DevNames, mounts \in BoundedSubsets(RootDevices, MaxRoots),
        t \in AzureTypes}

AwsHosts ==
    {[HostWith(dev, mounts) EXCEPT !.findmnt = f, !.model = m, !.devmap = d,
                                   !.vm_type = "i3.16xlarge"] :
        dev \in SUBSET AwsDevNames, mounts \in BoundedSubsets(AwsRootDevices, MaxRoots),
        f \in {"/dev/xvda1", "/dev/nvme0n1p1"}, m \in NvmeModels, d \in AwsDevmaps}

Ops == {"__init__", "get_cloud_instance", "get_local_disks", "get_remote_disks",
        "nvme_disk_count", "fetch", "firstNvmeSize", "is_recommended_instance",
        "instance_class", "instance_size", "instance_purpose", "io_setup", "io",
        "instancetype", "cpu", "memoryGB"}
NoCalls == [op \in Ops |-> NotCalled]

inst_Init ==
    /\ curl_Idle /\ det_Idle
    /\ provider \in {"gcp", "azure", "aws"}
    /\ env \in CASE provider = "gcp" -> GcpHosts
                 [] provider = "azure" -> AzureHosts
                 [] OTHER -> {h \in AwsHosts :
                                 "/dev/root" \notin h.mounts => h.findmnt = "/dev/xvda1"}
    /\ self = NoObject
    /\ ret = NoCalls

Live == self.cls \in {"gcp_instance", "azure_instance", "aws_instance"}

\* gcp_instance(), azure_instance.__init__ run for an instance of the class
\* (one whose remaining abstract members a subclass supplies), aws_instance().
Construct ==
    /\ self = NoObject
    /\ \E net \in IF provider = "aws"
                   THEN [type : FetchEnds, devmap : FetchEnds, mapping : FetchEnds]
                   ELSE {[type |-> "ok", devmap |-> "ok", mapping |-> "ok"]} :
          LET r == CASE provider = "gcp" -> Return(gcp_init)
                     [] provider = "azure" -> Return(azure_init)
                     [] OTHER -> aws_init(env, net)
          IN  /\ self' = IF r.kind = "return" THEN r.val ELSE [cls |-> "failed"]
              /\ ret' = [ret EXCEPT !["__init__"] =
                            IF r.kind = "return" THEN Return(provider) ELSE r]
    /\ UNCHANGED <<env, provider, curl_vars, det_vars>>

\* A call of get_local_disks()
GetLocalDisks ==
    /\ Live
    /\ LET r == CASE provider = "gcp" -> gcp_get_local_disks(self, env)
                  [] provider = "azure" -> azure_get_local_disks(self, env)
                  [] OTHER -> [self |-> self, ret |-> aws_get_local_disks(self)]
       IN  self' = r.self /\ ret' = [ret EXCEPT !["get_local_disks"] = r.ret]
    /\ UNCHANGED <<env, provider, curl_vars, det_vars>>

\* A call of get_remote_disks()
GetRemoteDisks ==
    /\ Live
    /\ LET r == CASE provider = "gcp" -> gcp_get_remote_disks(self, env)
                  [] provider = "azure" -> azure_get_remote_disks(self, env)
                  [] OTHER -> [self |-> self, ret |-> aws_get_remote_disks(self)]
       IN  self' = r.self /\ ret' = [ret EXCEPT !["get_remote_disks"] = r.ret]
    /\ UNCHANGED <<env, provider, curl_vars, det_vars>>

\* A read of the property nvme_disk_count; ret["fetch"] keeps how the
\* metadata fetch ended in the call that made one.
NvmeDiskCount ==
    /\ Live
    /\ \E net \in IF provider = "aws" THEN {"ok"} ELSE FetchEnds :
          LET r == CASE provider = "gcp" -> gcp_nvme_disk_count(self, env, net)
                     [] provider = "azure" -> azure_nvme_disk_count(self, env, net)
                     [] OTHER -> [self |-> self, ret |-> aws_nvme_disk_count(self)]
              fetched == CASE provider = "gcp" -> self.nvmeDiskCount = {}
                           [] provider = "azure" -> self.nvmeDiskCount = {} /\ self.type = {}
                           [] OTHER -> FALSE
          IN  /\ self' = r.self
              /\ ret' = [ret EXCEPT !["nvme_disk_count"] = r.ret,
                                    !["fetch"] = IF fetched THEN Return(net) ELSE @]
    /\ UNCHANGED <<env, provider, curl_vars, det_vars>>

inst_Next == Construct \/ GetLocalDisks \/ GetRemoteDisks \/ NvmeDiskCount

SpecInst == inst_Init /\ [][inst_Next]_vars

(***************************************************************************)
(* Claims about the disk inventory                                         *)
(***************************************************************************)
\* What backs "/": each root-mounted device (the one findmnt names when the
\* mount table says /dev/root) and the disk that device is a partition of.
RootMounts ==
    {IF m = "/dev/root" THEN env.findmnt ELSE m : m \in env.mounts}
DiskOfPartition ==
    [p \in {"/dev/sda1", "/dev/sdb1", "/dev/nvme0n1p1", "/dev/xvda1"} |->
        CASE p = "/dev/sda1" -> "/dev/sda"
          [] p = "/dev/sdb1" -> "/dev/sdb"
          [] p = "/dev/nvme0n1p1" -> "/dev/nvme0n1"
          [] OTHER -> "/dev/xvda"]
RootBacking == RootMounts \cup {DiskOfPartition[m] : m \in RootMounts}

\* A returned device name as a path.
AsPath(x) == IF startswith(x, "/") THEN x ELSE "/dev/" \o x

\* C5: for every provider and every host, the sets get_local_disks and
\* get_remote_disks return are disjoint and neither holds the device that
\* backs the root mount.
C5_DisksDisjointNoRoot ==
    (ret["get_local_disks"].kind = "return" /\ ret["get_remote_disks"].kind = "return") =>
        LET local == ret["get_local_disks"].val
            remote == ret["get_remote_disks"].val
        IN  /\ local \cap remote = {}
            /\ \A x \in local \cup remote : AsPath(x) \notin RootBacking

\* The same statement for the two providers that filter both lists by root.
GcpAzureDisksDisjointNoRoot == provider \in {"gcp", "azure"} => C5_DisksDisjointNoRoot

\* The NVMe namespaces of /dev that do not back "/".
OsNonRootNvmes == {n \in env.dev : n \in NvmeNames /\ AsPath(n) \notin RootBacking}

\* The count the provider's metadata implies: on GCP the entries of the disk
\* list whose interface is NVME, on Azure the table's entry for the class.
AzureLsv2Count ==
    [t \in AzureTypes |->
        CASE t = "Standard_L8s_v2" -> 1
          [] t = "Standard_L16s_v2" -> 2
          [] t = "Standard_L32s_v2" -> 4
          [] OTHER -> 0]
MetadataCount ==
    IF provider = "gcp"
    THEN Cardinality({i \in DOMAIN env.disks_json.disks : env.disks_json.disks[i] = "NVME"})
    ELSE AzureLsv2Count[env.vm_type]

\* The metadata was read and understood: the fetch answered and, on GCP, the
\* body was a JSON list whose entries all have an interface.
MetadataRead ==
    /\ ret["fetch"] = Return("ok")
    /\ provider = "gcp" =>
          /\ env.disks_json.ok
          /\ \A i \in DOMAIN env.disks_json.disks : env.disks_json.disks[i] # "absent"

\* The OS inventory can be built: Azure insists on exactly one root device.
InventoryBuilt == provider = "azure" => Cardinality(env.mounts) = 1

GcpCountBothWays ==
    ~(/\ provider = "gcp" /\ ret["nvme_disk_count"].kind = "return" /\ MetadataRead
      /\ Cardinality(OsNonRootNvmes) = 2 /\ MetadataCount = 1)

\* C7: on AWS, nvme_disk_count returns the number of devices in the
\* instance's own inventory of non-root ephemeral and EBS devices.
C7_AwsCountIsInventory ==
    (provider = "aws" /\ ret["nvme_disk_count"].kind # "none") =>
        /\ ret["nvme_disk_count"].kind = "return"
        /\ ret["nvme_disk_count"].val = Cardinality(aws_non_root_disks(self))

(***************************************************************************)
(* The provider detector                                                   *)
(***************************************************************************)
\* The abstract members of cloud_instance, and the members each provider
\* class defines.  A class with an abstract member left cannot be
\* instantiated: calling it raises TypeError.
AbstractMembers ==
    {"get_local_disks", "get_remote_disks", "private_ipv4", "is_supported_instance_class",
     "instance_class", "instance_size", "io_setup", "check", "user_data",
     "nvme_disk_count", "endpoint_snitch", "getting_started_url"}
GcpMembers ==
    AbstractMembers \cup {"is_gce_instance", "os_disks", "instancetype", "cpu", "memoryGB",
                          "instance_purpose", "firstNvmeSize", "is_recommended_instance"}
AzureMembers ==
    {"endpoint_snitch", "getting_started_url", "is_azure_instance", "os_disks",
     "get_local_disks", "get_remote_disks", "nvme_disk_count", "instancelocation",
     "instancezone", "instancetype", "cpu", "memoryGB", "instance_purpose",
     "instance_class", "is_unsupported_instance_class", "is_supported_instance_class",
     "is_recommended_instance_size", "is_recommended_instance", "private_ipv4", "check",
     "io_setup"}
AwsMembers ==
    AbstractMembers \cup {"is_aws_instance", "instance", "disks", "root_device", "root_disk",
                          "non_root_disks", "public_ipv4", "is_vpc_enabled"}

\* ABCMeta: the abstract members a class leaves undefined.
abstract_left(members) == AbstractMembers \ members

\* (an instantiation that does not look at abstract members)
instantiate_unchecked(members, init) == init

\* cls(): TypeError when abstract members are left, else what __init__ does.
instantiate(members, init) ==
    IF abstract_left(members) # {} THEN Raise("TypeError") ELSE init

\* aws_instance.is_aws_instance: curl with max_retries=2; URLError and
\* HTTPError mean "not AWS", anything else propagates.
is_aws_instance(r) ==
    IF r.kind = "return" THEN Return(TRUE)
    ELSE IF r.exc \in {"URLError", "HTTPError"} THEN Return(FALSE)
    ELSE r

LINK_LOCAL == "169.254.169.254"

\* The for loop of gcp_instance.is_gce_instance over the rest of addrlist;
\* `net` is how the fetch of machine-type ends (made through a throwaway
\* gcp_instance() that is never handed out).
RECURSIVE gce_addr_loop(_, _)
gce_addr_loop(addrlist, net) ==
    IF addrlist = <<>> THEN Return(FALSE)
    ELSE LET res == Head(addrlist) IN
         IF res.af = "AF_INET" /\ res.addr = LINK_LOCAL
         THEN IF net = "HTTPError" THEN Return(FALSE)
              ELSE IF net = "ok" THEN Return(TRUE)
              ELSE Raise(net)
         ELSE gce_addr_loop(Tail(addrlist), net)

\* (a probe that takes every failure of the machine-type fetch for a no)
is_gce_instance_catch_all(answer, net) ==
    IF answer.gaierror THEN Return(FALSE)
    ELSE LET r == gce_addr_loop(answer.addrlist, net) IN
         IF r.kind = "raise" THEN Return(FALSE) ELSE r

\* gcp_instance.is_gce_instance
is_gce_instance(answer, net) ==
    IF answer.gaierror THEN Return(FALSE) ELSE gce_addr_loop(answer.addrlist, net)

\* (an Azure probe that takes any answer of the resolver for a yes)
is_azure_instance_always(answer) == Return(TRUE)

\* azure_instance.is_azure_instance
is_azure_instance(answer) == IF answer.gaierror THEN Return(FALSE) ELSE Return(TRUE)

\* Longest address list the resolver gives.
MaxAddrs == 2

Addrs == {[af |-> "AF_INET", addr |-> LINK_LOCAL], [af |-> "AF_INET", addr |-> "10.0.0.2"],
          [af |-> "AF_INET6", addr |-> "fd20:ce::254"]}
DnsAnswers ==
    {[gaierror |-> TRUE, addrlist |-> <<>>]} \cup
    {[gaierror |-> FALSE, addrlist |-> l] : l \in UNION {[1..n -> Addrs] : n \in 1..MaxAddrs}}

\* The transports the AWS probe can meet: it sends at most max_retries requests.
ProbeScripts == {s \in Scripts : \A i \in DOMAIN s : i > AWS_PROBE_MAX_RETRIES => s[i] = "ok"}

\* The hosts get_cloud_instance is run on: as AwsHosts, with /dev full.
DetectHosts ==
    {h \in AwsHosts : /\ h.dev = AwsDevNames
                      /\ h.findmnt = "/dev/xvda1"
                      /\ h.model = [c \in DOMAIN h.model |-> EBS_MODEL]
                      /\ h.devmap = [ami |-> "sda1", root |-> "/dev/sda1"]}

det_Init ==
    /\ script \in ProbeScripts
    /\ max_retries = AWS_PROBE_MAX_RETRIES
    /\ curl_result = NotCalled
    /\ dns \in [gcp : DnsAnswers, azure : {a \in DnsAnswers : Len(a.addrlist) <= 1}]
    /\ env \in DetectHosts
    /\ provider = "none" /\ self = NoObject /\ ret = NoCalls
    /\ pc = "is_ec2" /\ probes = <<>> /\ built = <<>>

\* A probe has answered (its metadata fetch, if it makes one, ending as
\* `net`): go on with yes, no, or leave with its exception.
Probed(name, r, net, yes, no) ==
    /\ probes' = Append(probes, [name |-> name, answer |-> r, net |-> net])
    /\ pc' = IF r.kind = "raise" THEN "done" ELSE IF r.val THEN yes ELSE no
    /\ ret' = IF r.kind = "raise" THEN [ret EXCEPT !["get_cloud_instance"] = r] ELSE ret

\* A class has been called: get_cloud_instance returns the instance or
\* leaves with the constructor's exception.
Built(name, r) ==
    /\ built' = Append(built, name)
    /\ pc' = "done"
    /\ provider' = IF r.kind = "return" THEN name ELSE provider
    /\ self' = IF r.kind = "return" THEN r.val ELSE [cls |-> "failed"]
    /\ ret' = [ret EXCEPT !["get_cloud_instance"] = IF r.kind = "return" THEN Return(name) ELSE r]

\* `if is_ec2():`
ProbeEc2 ==
    /\ pc = "is_ec2"
    /\ curl_result' = curl(script, max_retries)
    /\ Probed("aws", is_aws_instance(curl_result'),
              IF curl_result'.kind = "return" THEN "ok" ELSE curl_result'.exc,
              "aws_instance", "is_gce")
    /\ UNCHANGED <<script, max_retries, env, provider, self, dns, built>>

\* `return aws_instance()`
BuildAws ==
    /\ pc = "aws_instance"
    /\ \E net \in [type : FetchEnds, devmap : FetchEnds, mapping : FetchEnds] :
          Built("aws", instantiate(AwsMembers, aws_init(env, net)))
    /\ UNCHANGED <<curl_vars, env, dns, probes>>

\* `elif is_gce():`
ProbeGce ==
    /\ pc = "is_gce"
    /\ \E net \in FetchEnds :
          Probed("gcp", is_gce_instance(dns.gcp, net), net, "gcp_instance", "is_azure")
    /\ UNCHANGED <<curl_vars, env, provider, self, dns, built>>

\* `return gcp_instance()`
BuildGcp ==
    /\ pc = "gcp_instance"
    /\ Built("gcp", instantiate(GcpMembers, Return(gcp_init)))
    /\ UNCHANGED <<curl_vars, env, dns, probes>>

\* `elif is_azure():`, and the `else: raise Exception("Unknown cloud provider! ...")`
ProbeAzure ==
    /\ pc = "is_azure"
    /\ LET r == is_azure_instance(dns.azure) IN
       /\ probes' = Append(probes, [name |-> "azure", answer |-> r, net |-> "none"])
       /\ pc' = IF r.val THEN "azure_instance" ELSE "done"
       /\ ret' = IF r.val THEN ret ELSE [ret EXCEPT !["get_cloud_instance"] = Raise("Unknown cloud provider")]
    /\ UNCHANGED <<curl_vars, env, provider, self, dns, built>>

\* `return azure_instance()`
BuildAzure ==
    /\ pc = "azure_instance"
    /\ Built("azure", instantiate(AzureMembers, Return(azure_init)))
    /\ UNCHANGED <<curl_vars, env, dns, probes>>

det_Next == ProbeEc2 \/ BuildAws \/ ProbeGce \/ BuildGcp \/ ProbeAzure \/ BuildAzure

SpecDetect == det_Init /\ [][det_Next]_vars

(***************************************************************************)
(* Claims about the provider detector                                      *)
(***************************************************************************)
ProbeOrder == <<"aws", "gcp", "azure">>
ProbeNames == [i \in DOMAIN probes |-> probes[i].name]
Yes(i) == probes[i].answer.kind = "return" /\ probes[i].answer.val
No(i) == probes[i].answer.kind = "return" /\ ~probes[i].answer.val

\* What can stop aws_instance() on a host: a metadata fetch that fails, or
\* the refusal of a host without exactly one root device.
HostFailures == (FetchEnds \ {"ok"}) \cup {"Exception"}

\* C3: the probes run in the order AWS, GCP, Azure; the first one that
\* answers yes ends the probing, and get_cloud_instance returns an instance
\* of exactly that provider (on AWS, unless the host itself stops the
\* constructor), also when only the Azure probe answers yes.
C3_FirstProbeWins ==
    (pc = "done" /\ probes # <<>> /\ Yes(Len(probes))) =>
        LET p == probes[Len(probes)].name IN
        /\ ProbeNames = SubSeq(ProbeOrder, 1, Len(probes))
        /\ \A i \in 1..(Len(probes) - 1) : No(i)
        /\ built = <<p>>
        /\ \/ ret["get_cloud_instance"] = Return(p) /\ provider = p /\ self.cls = p \o "_instance"
           \/ /\ p = "aws"
              /\ ret["get_cloud_instance"].kind = "raise"
              /\ ret["get_cloud_instance"].exc \in HostFailures

\* The same statement for the two providers whose class can be instantiated.
AwsGcpFirstProbeWins ==
    (probes # <<>> /\ probes[Len(probes)].name # "azure") => C3_FirstProbeWins

\* The host is on none of the platforms: the AWS metadata address fails both
\* requests of the probe; the GCP name does not resolve, or to no IPv4
\* 169.254.169.254, or machine-type answers with an HTTP error; the Azure
\* name does not resolve.
AwsSaysNo == \A i \in 1..AWS_PROBE_MAX_RETRIES : script[i] \in {"URLError", "HTTPError"}
GcpResolves ==
    /\ ~dns.gcp.gaierror
    /\ \E i \in DOMAIN dns.gcp.addrlist :
          dns.gcp.addrlist[i] = [af |-> "AF_INET", addr |-> LINK_LOCAL]
GcpSaysNo == GcpResolves => (Len(probes) >= 2 /\ probes[2].net = "HTTPError")
AzureSaysNo == dns.azure.gaierror

DigitValue(c) == CHOOSE d \in 0..9 : DigitOf[d + 1] = c
RECURSIVE digits_value(_, _)
digits_value(s, acc) ==
    IF s = "" THEN acc
    ELSE IF Ch(s, 1) \notin Digits THEN -1
    ELSE digits_value(SubSeq(s, 2, Len(s)), 10 * acc + DigitValue(Ch(s, 1)))
int(s) == IF s = "" THEN -1 ELSE digits_value(s, 0)

\* The property gcp_instance.instancetype: the last piece of the machine-type
\* field, e.g. projects/1/machineTypes/n2-standard-2.
gcp_instancetype(o, e, net) ==
    IF o.type # {} THEN [self |-> o, ret |-> Return(The(o.type))]
    ELSE IF net # "ok" THEN [self |-> o, ret |-> Raise(net)]
    ELSE LET parts == split(e.vm_type, "/")
             t == parts[Len(parts)]
         IN  [self |-> [o EXCEPT !.type = Some(t)], ret |-> Return(t)]

\* The properties gcp_instance.cpu and gcp_instance.memoryGB (the memory is
\* kept in MiB here: memoryGB is mem_mib / 1024).
gcp_cpu(o, e) == [o EXCEPT !.cpu = IF @ = {} THEN Some(e.ncpu) ELSE @]
gcp_memory(o, e) == [o EXCEPT !.memoryGB = IF @ = {} THEN Some(e.mem_mib) ELSE @]

\* (an instance_size that takes the last piece of the name)
gcp_instance_size_last(t) ==
    LET instancetypesplit == split(t, "-") IN
    IF Len(instancetypesplit) > 2
    THEN [str |-> TRUE, v |-> instancetypesplit[Len(instancetypesplit)]]
    ELSE [str |-> FALSE, v |-> 0]

\* gcp_instance.instance_size on the instance type t: a string, or the
\* number 0 when there is no third piece.
gcp_instance_size(t) ==
    LET instancetypesplit == split(t, "-") IN
    IF Len(instancetypesplit) > 2
    THEN [str |-> TRUE, v |-> instancetypesplit[3]]
    ELSE [str |-> FALSE, v |-> 0]

\* gcp_instance.instance_class and instance_purpose on the instance type t
\* (instance_purpose raises IndexError when there is no second piece).
gcp_instance_class(t) == split(t, "-")[1]
gcp_instance_purpose(t) ==
    LET parts == split(t, "-") IN
    IF Len(parts) < 2 THEN Raise("IndexError") ELSE Return(parts[2])

m1supported == "m1-megamem-96"

is_unsupported_instance_class(t) ==
    IF t = m1supported THEN FALSE
    ELSE gcp_instance_class(t) \in {"e2", "f1", "g1", "m2", "m1"}

gcp_is_supported_instance_class(t) ==
    IF t = m1supported THEN TRUE
    ELSE gcp_instance_class(t) \in {"n1", "n2", "n2d", "c2"}

\* gcp_instance.is_recommended_instance_size: `int(self.instance_size()) > 1`
is_recommended_instance_size(t) ==
    LET size == gcp_instance_size(t)
        n == IF size.str THEN int(size.v) ELSE size.v
    IN  IF n < 0 THEN Raise("ValueError") ELSE Return(n > 1)

GCP_NVME_DISK_SIZE_2020 == 375
MiBPerGB == 1024

\* `if firstDiskSizeGB >= self.GCP_NVME_DISK_SIZE_2020` ... `else ... = 0`,
\* the size in MiB.
size_or_zero(firstDiskSize) ==
    IF firstDiskSize >= GCP_NVME_DISK_SIZE_2020 * MiBPerGB THEN firstDiskSize ELSE 0

\* The property gcp_instance.firstNvmeSize (in MiB); e.size_mib is what
\* seeking to the end of the first local disk gives.
gcp_firstNvmeSize(o, e) ==
    IF o.firstNvmeSize # {} THEN [self |-> o, ret |-> Return(The(o.firstNvmeSize))]
    ELSE LET l == gcp_get_local_disks(o, e)
             n == IF Cardinality(l.ret.val) > 0 THEN size_or_zero(e.size_mib) ELSE 0
         IN  [self |-> [l.self EXCEPT !.firstNvmeSize = Some(n)], ret |-> Return(n)]

\* (a CPU:RAM check that accepts exactly 1 CPU per 2 GB)
cpu_ram_ok_loose(cpu, mem_mib) == 2 * MiBPerGB * cpu <= mem_mib

\* `self.cpu/self.memoryGB < 0.5`
cpu_ram_ok(cpu, mem_mib) == 2 * MiBPerGB * cpu < mem_mib

max_disktoramratio == 105

\* `disktoramratio > max_disktoramratio`, disktoramratio being
\* (diskCount * diskSize) / memoryGB
ratio_too_high(diskCount, diskSize, mem_mib) ==
    diskCount * diskSize > max_disktoramratio * mem_mib

\* is_recommended_instance from `diskSize = self.firstNvmeSize` on, f the
\* read of firstNvmeSize.
verdict_on_ratio(f, diskCount, mem_mib) ==
    [self |-> f.self, ret |-> Return(~ratio_too_high(diskCount, f.ret.val, mem_mib))]

\* is_recommended_instance inside `if self.cpu/self.memoryGB < 0.5`, c the
\* read of nvme_disk_count.
verdict_on_disks(c, e, cpu, mem_mib) ==
    IF c.ret.val >= 16 /\ cpu < 32 THEN [self |-> c.self, ret |-> Return(FALSE)]
    ELSE IF c.ret.val < 1 THEN [self |-> c.self, ret |-> Return(FALSE)]
    ELSE verdict_on_ratio(gcp_firstNvmeSize(c.self, e), c.ret.val, mem_mib)

\* is_recommended_instance from `if self.cpu/self.memoryGB < 0.5` on, o the
\* instance after the reads of cpu and memoryGB.
verdict_on_resources(o, e, net) ==
    IF cpu_ram_ok(The(o.cpu), The(o.memoryGB))
    THEN verdict_on_disks(gcp_nvme_disk_count(o, e, net), e, The(o.cpu), The(o.memoryGB))
    ELSE [self |-> o, ret |-> Return(FALSE)]

\* is_recommended_instance from is_recommended_instance_size() on, s its
\* result.
verdict_on_size(s, o, e, net) ==
    IF s.kind = "raise" THEN [self |-> o, ret |-> s]
    ELSE IF ~s.val THEN [self |-> o, ret |-> Return(FALSE)]
    ELSE verdict_on_resources(gcp_memory(gcp_cpu(o, e), e), e, net)

\* is_recommended_instance, t the first read of instancetype.
verdict_on_type(t, e, net) ==
    IF t.ret.kind = "raise" THEN t
    ELSE IF is_unsupported_instance_class(t.ret.val) \/
            ~gcp_is_supported_instance_class(t.ret.val)
    THEN [self |-> t.self, ret |-> Return(FALSE)]
    ELSE verdict_on_size(is_recommended_instance_size(t.ret.val), t.self, e, net)

\* gcp_instance.is_recommended_instance; the fetches of machine-type and of
\* disks end as net.type and net.disks when they are made.
gcp_is_recommended_instance(o, e, net) ==
    verdict_on_type(gcp_instancetype(o, e, net.type), e, net.disks)

(***************************************************************************)
(* GCP instances asked whether they suit Scylla                            *)
(***************************************************************************)
\* The decimal numeral of a number below 100.
numeral(i) == IF i < 10 THEN DigitOf[i + 1] ELSE DigitOf[(i \div 10) + 1] \o DigitOf[(i % 10) + 1]

\* The local SSDs of a GCP machine: nvme0n1, nvme0n2, ...
LocalSsds(n) == {"nvme0n" \o numeral(i) : i \in 1..n}

\* Machine types, vCPUs, memory (MiB), size of the first local disk (MiB) and
\* <<local SSDs the OS shows, NVMe entries of the metadata>> of the hosts.
GcpTypes == {"n2-standard-2", "n1-standard-1", "n2d-highmem-32", "c2-standard-16",
             "e2-medium", "m1-megamem-96", "m1-ultramem-40", "a2-highgpu-1g", "n2-custom"}
Cpus == {2, 8, 16, 32}
MemsMiB == {8192, 16384, 131072}
SizesMiB == {102400, 383999, 384000}
DiskPairs == {<<0, 0>>, <<2, 2>>, <<2, 1>>, <<1, 2>>, <<8, 8>>, <<16, 16>>, <<20, 20>>}

\* What precedes the type's name in the machine-type field of the metadata.
MachineTypePrefix == "projects/1/machineTypes/"

SuitHosts ==
    {[HostWith(LocalSsds(d[1]), {"/dev/sda1"}) EXCEPT
         !.disks_json = [ok |-> TRUE, disks |-> Repeat("NVME", d[2]) \o <<"SCSI">>],
         !.vm_type = MachineTypePrefix \o t,
         !.ncpu = c, !.mem_mib = m, !.size_mib = z] :
        d \in DiskPairs, t \in GcpTypes, c \in Cpus, m \in MemsMiB, z \in SizesMiB}

suit_Init ==
    /\ curl_Idle /\ det_Idle
    /\ provider = "gcp"
    /\ env \in SuitHosts
    /\ self = NoObject
    /\ ret = NoCalls

\* gcp_instance()
ConstructGcp ==
    /\ self = NoObject
    /\ self' = gcp_init
    /\ ret' = [ret EXCEPT !["__init__"] = Return(provider)]
    /\ UNCHANGED <<env, provider, curl_vars, det_vars>>

\* A read of the property firstNvmeSize
FirstNvmeSize ==
    /\ Live
    /\ LET r == gcp_firstNvmeSize(self, env)
       IN  self' = r.self /\ ret' = [ret EXCEPT !["firstNvmeSize"] = r.ret]
    /\ UNCHANGED <<env, provider, curl_vars, det_vars>>

\* A call of is_recommended_instance(); a fetch can only fail where the value
\* is not cached yet, and ret["fetch"] keeps how the fetch of the disk list
\* ended in the call that made one.
IsRecommendedInstance ==
    /\ Live
    /\ \E net \in [type : IF self.type = {} THEN FetchEnds ELSE {"ok"},
                   disks : IF self.nvmeDiskCount = {} THEN FetchEnds ELSE {"ok"}] :
       \E r \in {gcp_is_recommended_instance(self, env, net)} :
          /\ self' = r.self
          /\ ret' = [ret EXCEPT !["is_recommended_instance"] = r.ret,
                                !["fetch"] = IF self.nvmeDiskCount = {} /\
                                                r.self.nvmeDiskCount # {}
                                             THEN Return(net.disks) ELSE @]
    /\ UNCHANGED <<env, provider, curl_vars, det_vars>>

suit_Next == ConstructGcp \/ FirstNvmeSize \/ IsRecommendedInstance

SpecSuit == suit_Init /\ [][suit_Next]_vars

(***************************************************************************)
(* Claims about the GCP suitability verdict                                *)
(***************************************************************************)
\* What the host is, read off the environment: the machine type, its class
\* and size, the disk count and the size the first local disk counts with.
HostType == SubSeq(env.vm_type, Len(MachineTypePrefix) + 1, Len(env.vm_type))
GcpTypeFacts ==
    [t \in GcpTypes |->
        CASE t = "n2-standard-2" -> [class |-> "n2", size |-> 2]
          [] t = "n1-standard-1" -> [class |-> "n1", size |-> 1]
          [] t = "n2d-highmem-32" -> [class |-> "n2d", size |-> 32]
          [] t = "c2-standard-16" -> [class |-> "c2", size |-> 16]
          [] t = "e2-medium" -> [class |-> "e2", size |-> 0]
          [] t = "m1-megamem-96" -> [class |-> "m1", size |-> 96]
          [] t = "m1-ultramem-40" -> [class |-> "m1", size |-> 40]
          [] t = "a2-highgpu-1g" -> [class |-> "a2", size |-> 1]
          [] OTHER -> [class |-> "n2", size |-> 0]]
DenyList == {"e2", "f1", "g1", "m2", "m1"}
AllowList == {"n1", "n2", "n2d", "c2"}
HostClass == GcpTypeFacts[HostType].class
HostDiskCount == Min(Cardinality(env.dev), MetadataCount)
HostFirstDiskMiB == IF env.dev # {} /\ env.size_mib >= 375 * 1024 THEN env.size_mib ELSE 0

\* is_recommended_instance has answered, and the disk list, if it was
\* fetched, was fetched successfully.
Asked ==
    /\ provider = "gcp"
    /\ "is_recommended_instance" \in DOMAIN ret
    /\ ret["is_recommended_instance"].kind = "return"
    /\ ret["fetch"] \in {NotCalled, Return("ok")}

CpuRamOk == 2 * env.ncpu * 1024 < env.mem_mib
DiskFloorOk == ~(HostDiskCount >= 16 /\ env.ncpu < 32)
SizeAndResourcesOk ==
    /\ GcpTypeFacts[HostType].size > 1
    /\ CpuRamOk
    /\ DiskFloorOk
    /\ HostDiskCount >= 1
    /\ HostDiskCount * HostFirstDiskMiB <= 105 * env.mem_mib

OtherwiseAcceptable ==
    /\ HostType = "m1-megamem-96" \/ (HostClass \notin DenyList /\ HostClass \in AllowList)
    /\ GcpTypeFacts[HostType].size > 1
    /\ CpuRamOk /\ DiskFloorOk /\ HostDiskCount >= 1

\* C9: on GCP, when the first local disk is present but measures less than
\* 375 GB, firstNvmeSize is 0 and is_recommended_instance returns False, for
\* every otherwise acceptable instance.
C9_UndersizedDiskRejected ==
    (Asked /\ OtherwiseAcceptable /\ env.dev # {} /\ env.size_mib < 375 * 1024) =>
        /\ self.firstNvmeSize = {0}
        /\ ret["is_recommended_instance"].val = FALSE

\* The half of C9 about firstNvmeSize alone.
UndersizedDiskCountsAsZero ==
    (Asked /\ OtherwiseAcceptable /\ env.dev # {} /\ env.size_mib < 375 * 1024) =>
        self.firstNvmeSize = {0}

(***************************************************************************)
(* The parts of an instance type's name                                    *)
(***************************************************************************)
\* aws_instance.instance_class and instance_size: `self._type.split(".")[0]`
\* and `[1]`
aws_instance_class(o) == Return(split(o.type, ".")[1])
aws_instance_size(o) ==
    LET parts == split(o.type, ".") IN
    IF Len(parts) < 2 THEN Raise("IndexError") ELSE Return([str |-> TRUE, v |-> parts[2]])

\* azure_instance defines no instance_size: the name resolves to
\* cloud_instance.instance_size, whose body is `pass`.
cloud_instance_instance_size == Return([str |-> FALSE, v |-> None])

\* Instance types of the three providers.
GcpTypeNames == {"n2-standard-2", "n2-custom-4-8192", "custom-4-8192", "e2-medium",
                 "m1-megamem-96"}
AwsTypeNames == {"i3.16xlarge", "i3en.metal", "u-6tb1.metal", "t2.micro"}
AzureTypeNames == {"Standard_L8s_v2", "Standard_D2s_v3", "Standard_L16s", "Basic_A0"}

TypedHosts(p) ==
    CASE p = "gcp" -> {[HostWith({}, {"/dev/sda1"}) EXCEPT !.vm_type = MachineTypePrefix \o t] :
                          t \in GcpTypeNames}
      [] p = "aws" -> {[HostWith({}, {"/dev/xvda1"}) EXCEPT !.vm_type = t, !.devmap = d] :
                          t \in AwsTypeNames, d \in AwsDevmaps}
      [] OTHER -> {[HostWith({}, {"/dev/sda1"}) EXCEPT !.vm_type = t] : t \in AzureTypeNames}

type_Init ==
    /\ curl_Idle /\ det_Idle
    /\ provider \in {"gcp", "azure", "aws"}
    /\ env \in TypedHosts(provider)
    /\ self = NoObject
    /\ ret = NoCalls

\* azure_instance.is_unsupported_instance_class: `return False`
azure_is_unsupported_instance_class == FALSE

\* azure_instance.is_supported_instance_class, c the result of
\* instance_class()
azure_is_supported_instance_class(c) ==
    IF c.ret.kind = "raise" THEN c
    ELSE [self |-> c.self, ret |-> Return(c.ret.val \in DOMAIN instanceToDiskCount)]

\* azure_instance.is_recommended_instance:
\* `if self.is_unsupported_instance_class() and self.is_supported_instance_class()`;
\* `and` does not evaluate its right side when the left one is false.
azure_is_recommended_instance(o, e, net) ==
    IF ~azure_is_unsupported_instance_class THEN [self |-> o, ret |-> Return(FALSE)]
    ELSE azure_is_supported_instance_class(azure_instance_class(o, e, net))

\* A fetch of the instance type can only fail where one is made: aws_instance
\* fetched it in __init__, the others cache it.
TypeFetchEnds == IF provider = "aws" \/ self.type # {} THEN {"ok"} ELSE FetchEnds

\* A call of instance_class()
InstanceClass ==
    /\ Live
    /\ \E net \in TypeFetchEnds :
          LET r == CASE provider = "gcp" ->
                          LET t == gcp_instancetype(self, env, net) IN
                          IF t.ret.kind = "raise" THEN t
                          ELSE [self |-> t.self, ret |-> Return(gcp_instance_class(t.ret.val))]
                     [] provider = "azure" -> azure_instance_class(self, env, net)
                     [] OTHER -> [self |-> self, ret |-> aws_instance_class(self)]
          IN  self' = r.self /\ ret' = [ret EXCEPT !["instance_class"] = r.ret]
    /\ UNCHANGED <<env, provider, curl_vars, det_vars>>

\* A call of instance_size()
InstanceSize ==
    /\ Live
    /\ \E net \in TypeFetchEnds :
          LET r == CASE provider = "gcp" ->
                          LET t == gcp_instancetype(self, env, net) IN
                          IF t.ret.kind = "raise" THEN t
                          ELSE [self |-> t.self, ret |-> Return(gcp_instance_size(t.ret.val))]
                     [] provider = "azure" -> [self |-> self, ret |-> cloud_instance_instance_size]
                     [] OTHER -> [self |-> self, ret |-> aws_instance_size(self)]
          IN  self' = r.self /\ ret' = [ret EXCEPT !["instance_size"] = r.ret]
    /\ UNCHANGED <<env, provider, curl_vars, det_vars>>

\* A call of instance_purpose(), which aws_instance does not have
InstancePurpose ==
    /\ Live
    /\ \E net \in TypeFetchEnds :
          LET r == CASE provider = "gcp" ->
                          LET t == gcp_instancetype(self, env, net) IN
                          IF t.ret.kind = "raise" THEN t
                          ELSE [self |-> t.self, ret |-> gcp_instance_purpose(t.ret.val)]
                     [] provider = "azure" -> azure_instance_purpose(self, env, net)
                     [] OTHER -> [self |-> self, ret |-> Raise("AttributeError")]
          IN  self' = r.self /\ ret' = [ret EXCEPT !["instance_purpose"] = r.ret]
    /\ UNCHANGED <<env, provider, curl_vars, det_vars>>

\* A call of is_recommended_instance() on an Azure instance
AzureIsRecommendedInstance ==
    /\ Live /\ provider = "azure"
    /\ \E net \in TypeFetchEnds :
       \E r \in {azure_is_recommended_instance(self, env, net)} :
          self' = r.self /\ ret' = [ret EXCEPT !["is_recommended_instance"] = r.ret]
    /\ UNCHANGED <<env, provider, curl_vars, det_vars>>

type_Next ==
    \/ Construct \/ InstanceClass \/ InstanceSize \/ InstancePurpose
    \/ AzureIsRecommendedInstance

SpecType == type_Init /\ [][type_Next]_vars

(***************************************************************************)
(* Claims about the parts of an instance type's name                       *)
(***************************************************************************)
\* The instance type string of the host and the provider's delimiter.
TypeString == IF provider = "gcp" THEN HostType ELSE env.vm_type
Delimiter == [gcp |-> "-", aws |-> ".", azure |-> "_"]
Returned(op) == op \in DOMAIN ret /\ ret[op].kind = "return"

\* C10: for each provider and every well-formed instance type string,
\* instance_class() and instance_size() joined with the provider's delimiter
\* give a prefix of the instance type string.
C10_ClassSizeIsPrefix ==
    (provider \in DOMAIN Delimiter /\ Returned("instance_class") /\ Returned("instance_size")) =>
        /\ ret["instance_size"].val.str
        /\ startswith(TypeString,
                      ret["instance_class"].val \o Delimiter[provider]
                          \o ret["instance_size"].val.v)

\* C10, with the parts each provider's names have: a prefix of the instance
\* type string is given on AWS by class.size, on GCP by class-purpose-size
\* (class-purpose for a name of two pieces, whose size is the number 0) and
\* on Azure by purpose_class.
C10_NamePartsArePrefix ==
    /\ (provider = "aws" /\ Returned("instance_class") /\ Returned("instance_size")) =>
          /\ ret["instance_size"].val.str
          /\ startswith(TypeString,
                        ret["instance_class"].val \o "." \o ret["instance_size"].val.v)
    /\ (provider = "gcp" /\ Returned("instance_class") /\ Returned("instance_purpose")
            /\ Returned("instance_size")) =>
          startswith(TypeString,
                     ret["instance_class"].val \o "-" \o ret["instance_purpose"].val
                         \o IF ret["instance_size"].val.str
                            THEN "-" \o ret["instance_size"].val.v ELSE "")
    /\ (provider = "azure" /\ Returned("instance_class") /\ Returned("instance_purpose")) =>
          startswith(TypeString,
                     ret["instance_purpose"].val \o "_" \o ret["instance_class"].val)

\* The three parts of the GCP type n2-custom-4-8192 have been asked for.
C10_Witness ==
    /\ provider = "gcp" /\ TypeString = "n2-custom-4-8192"
    /\ Returned("instance_class") /\ Returned("instance_purpose")
    /\ Returned("instance_size") /\ ret["instance_size"].val.str

(***************************************************************************)
(* io_setup: the I/O tuning collaborator                                   *)
(***************************************************************************)
\* How generate() and save() of the setup object can end: generate() raises
\* one of the collaborator's two named conditions or something else.
GenerateEnds == {"ok", "UnsupportedInstanceClassError", "PresetNotFoundError", "KeyError"}
SaveEnds == {"ok", "OSError"}

\* The `except` clauses of io_setup, in order.
IoSetupClauses == <<"UnsupportedInstanceClassError", "PresetNotFoundError">>

\* The except clauses met by the exception exc, from clause i on: each
\* clause's expression is a bare name evaluated when an exception reaches
\* it; the clause that matches handles (and logs), none matching re-raises.
RECURSIVE except_clauses(_, _, _)
except_clauses(exc, clauses, i) ==
    IF i > Len(clauses) THEN Raise(exc)
    ELSE IF ~name_defined(clauses[i]) THEN Raise("NameError")
    ELSE IF exc = clauses[i] THEN Return(i)
    ELSE except_clauses(exc, clauses, i + 1)

\* io_setup after the try statement, h being how the try statement ended.
io_setup_after_try(h, g, s) ==
    IF h.kind = "raise"
    THEN [io |-> [generate |-> g, save |-> s, calls |-> <<"generate">>, logged |-> 0],
          ret |-> h]
    ELSE [io |-> [generate |-> g, save |-> s, calls |-> <<"generate", "save">>,
                  logged |-> h.val],
          ret |-> IF s = "ok" THEN Return(None) ELSE Raise(s)]

\* gcp_instance.io_setup, azure_instance.io_setup, aws_instance.io_setup
\* (the three bodies differ in the messages only), generate() ending as g
\* and save() as s.
io_setup(g, s) ==
    io_setup_after_try(IF g = "ok" THEN Return(0) ELSE except_clauses(g, IoSetupClauses, 1),
                       g, s)

\* A call of io_setup(); ret["io"] keeps what was done to the setup object.
IoSetup ==
    /\ Live
    /\ \E g \in GenerateEnds, s \in SaveEnds :
       \E r \in {io_setup(g, s)} :
          ret' = [ret EXCEPT !["io_setup"] = r.ret, !["io"] = Return(r.io)]
    /\ UNCHANGED <<self, env, provider, curl_vars, det_vars>>

io_Next == Construct \/ IoSetup

SpecIo == type_Init /\ [][io_Next]_vars

\* C11: for each provider io_setup calls generate() and then save(); when
\* generate() raises UnsupportedInstanceClassError or PresetNotFoundError,
\* io_setup only logs it, propagates no exception and still calls save().
C11_IoSetupBestEffort ==
    ret["io_setup"].kind # "none" =>
        LET io == ret["io"].val IN
        /\ io.generate = "ok" => io.calls = <<"generate", "save">>
        /\ io.generate \in {"UnsupportedInstanceClassError", "PresetNotFoundError"} =>
              /\ io.calls = <<"generate", "save">>
              /\ io.logged # 0
              /\ io.save = "ok" => ret["io_setup"].kind = "return"

\* The half of C11 about a generate() that raises nothing.
IoSetupGenerateThenSave ==
    (ret["io_setup"].kind # "none" /\ ret["io"].val.generate = "ok") =>
        ret["io"].val.calls = <<"generate", "save">>

(***************************************************************************)
(* Claims about hosts with more than one device mounted at "/"             *)
(***************************************************************************)
AmbiguousRoot == Cardinality(env.mounts) > 1
InventoryOps == {"get_local_disks", "get_remote_disks", "nvme_disk_count"}

\* The operation op, if it was called, failed with the ambiguous-root error.
FailsOnRoot(op) == ret[op].kind # "none" => ret[op] = Raise("Exception")

\* C12: on Azure and AWS, with more than one device mounted at "/",
\* get_local_disks, get_remote_disks, nvme_disk_count and (on AWS) the
\* construction of the instance fail with the ambiguous-root error and never
\* return a disk set or count; on GCP the same operations succeed with zero
\* or one root device.
C12_AmbiguousRootIsFatal ==
    /\ (provider \in {"azure", "aws"} /\ AmbiguousRoot) =>
          /\ \A op \in InventoryOps : FailsOnRoot(op)
          /\ provider = "aws" => ret["__init__"].kind # "return"
    /\ (provider = "gcp" /\ ~AmbiguousRoot) =>
          \A op \in InventoryOps : ret[op].kind \in {"none", "return"}

\* C12 without nvme_disk_count on Azure.
AmbiguousRootIsFatalToTheDiskLists ==
    /\ (provider \in {"azure", "aws"} /\ AmbiguousRoot) =>
          /\ \A op \in {"get_local_disks", "get_remote_disks"} : FailsOnRoot(op)
          /\ provider = "aws" =>
                ret["__init__"].kind # "return" /\ ret["nvme_disk_count"].kind = "none"
    /\ (provider = "gcp" /\ ~AmbiguousRoot) =>
          \A op \in InventoryOps : ret[op].kind \in {"none", "return"}

(***************************************************************************)
(* Cached attributes on a host that changes under the instance             *)
(***************************************************************************)
\* azure_instance.cpu and azure_instance.memoryGB (the memory in MiB).
azure_cpu(o, e) == [o EXCEPT !.cpu = IF @ = {} THEN Some(e.ncpu) ELSE @]
azure_memory(o, e) == [o EXCEPT !.memoryGB = IF @ = {} THEN Some(e.mem_mib) ELSE @]

\* What the OS shows (devices, root mounts, CPUs, memory, size of the first
\* local disk) and what the metadata service answers, at different times.
OsPictures ==
    {[dev |-> {"nvme0n1"}, mounts |-> {"/dev/sda1"}, ncpu |-> 2, mem_mib |-> 8192,
      size_mib |-> 384000],
     [dev |-> {"nvme0n1", "nvme0n2"}, mounts |-> {"/dev/sda1"}, ncpu |-> 8,
      mem_mib |-> 16384, size_mib |-> 102400],
     [dev |-> {"nvme0n2"}, mounts |-> {"/dev/sda1", "/dev/sdb1"}, ncpu |-> 2,
      mem_mib |-> 8192, size_mib |-> 384000]}
MdPictures(p) ==
    IF p = "gcp"
    THEN {[vm_type |-> MachineTypePrefix \o "n2-standard-2",
           disks_json |-> [ok |-> TRUE, disks |-> <<"NVME", "NVME">>]],
          [vm_type |-> MachineTypePrefix \o "n2-highmem-8",
           disks_json |-> [ok |-> TRUE, disks |-> <<"NVME", "SCSI">>]]}
    ELSE {[vm_type |-> "Standard_L16s_v2", disks_json |-> [ok |-> TRUE, disks |-> <<>>]],
          [vm_type |-> "Standard_L8s_v2", disks_json |-> [ok |-> TRUE, disks |-> <<>>]]}

WithOs(e, os) ==
    [e EXCEPT !.dev = os.dev, !.mounts = os.mounts, !.ncpu = os.ncpu,
              !.mem_mib = os.mem_mib, !.size_mib = os.size_mib]
WithMd(e, md) == [e EXCEPT !.vm_type = md.vm_type, !.disks_json = md.disks_json]

cache_Init ==
    /\ curl_Idle /\ det_Idle
    /\ provider \in {"gcp", "azure"}
    /\ env \in {WithMd(WithOs(HostDefaults, os), md) :
                   os \in OsPictures, md \in MdPictures(provider)}
    /\ self = NoObject
    /\ ret = NoCalls

\* The /dev listing, the mount table, the CPUs or the memory change.
OsChanges ==
    /\ \E os \in OsPictures : env' = WithOs(env, os) /\ env' # env
    /\ UNCHANGED <<self, ret, provider, curl_vars, det_vars>>

\* The metadata service starts to answer differently.
MetadataChanges ==
    /\ \E md \in MdPictures(provider) : env' = WithMd(env, md) /\ env' # env
    /\ UNCHANGED <<self, ret, provider, curl_vars, det_vars>>

\* A read of the property instancetype
Instancetype ==
    /\ Live
    /\ \E net \in TypeFetchEnds :
       \E r \in {IF provider = "gcp" THEN gcp_instancetype(self, env, net)
                 ELSE azure_instancetype(self, env, net)} :
          self' = r.self /\ ret' = [ret EXCEPT !["instancetype"] = r.ret]
    /\ UNCHANGED <<env, provider, curl_vars, det_vars>>

\* A read of the property cpu
Cpu ==
    /\ Live
    /\ self' = IF provider = "gcp" THEN gcp_cpu(self, env) ELSE azure_cpu(self, env)
    /\ ret' = [ret EXCEPT !["cpu"] = Return(The(self'.cpu))]
    /\ UNCHANGED <<env, provider, curl_vars, det_vars>>

\* A read of the property memoryGB
MemoryGB ==
    /\ Live
    /\ self' = IF provider = "gcp" THEN gcp_memory(self, env) ELSE azure_memory(self, env)
    /\ ret' = [ret EXCEPT !["memoryGB"] = Return(The(self'.memoryGB))]
    /\ UNCHANGED <<env, provider, curl_vars, det_vars>>

cache_Next ==
    \/ Construct \/ OsChanges \/ MetadataChanges
    \/ Instancetype \/ Cpu \/ MemoryGB
    \/ GetLocalDisks \/ NvmeDiskCount
    \/ (provider = "gcp" /\ FirstNvmeSize)

SpecCache == cache_Init /\ [][cache_Next]_vars

(***************************************************************************)
(* Claims about the cached attributes                                      *)
(***************************************************************************)
\* The caches of an instance, the cache each accessor answers from, and the
\* caches the code of each accessor can fill.
Caches == {"type", "cpu", "memoryGB", "osDisks", "nvmeDiskCount", "firstNvmeSize"}
Accessors == {"instancetype", "cpu", "memoryGB", "get_local_disks", "nvme_disk_count",
              "firstNvmeSize"}
CacheOf ==
    [instancetype |-> "type", cpu |-> "cpu", memoryGB |-> "memoryGB",
     get_local_disks |-> "osDisks", nvme_disk_count |-> "nvmeDiskCount",
     firstNvmeSize |-> "firstNvmeSize"]
FilledBy(op) ==
    CASE op = "nvme_disk_count" ->
            {"nvmeDiskCount", "osDisks"} \cup (IF provider = "azure" THEN {"type"} ELSE {})
      [] op = "firstNvmeSize" -> {"firstNvmeSize", "osDisks"}
      [] OTHER -> {CacheOf[op]}

\* A cache that holds a value keeps it, and an accessor that has returned a
\* value returns that value in every later call.
ComputedOnce ==
    Live =>
        /\ \A c \in Caches : self[c] # {} => self'[c] = self[c]
        /\ \A op \in Accessors : ret[op].kind = "return" => ret'[op] = ret[op]

\* What an accessor returns is what its cache holds.
AnswersFromCache ==
    \A op \in Accessors :
        (Live /\ ret'[op] # ret[op] /\ ret'[op].kind = "return") =>
            /\ self'[CacheOf[op]] # {}
            /\ ret'[op].val = IF op = "get_local_disks"
                              THEN The(self'[CacheOf[op]]).ephemeral
                              ELSE The(self'[CacheOf[op]])

\* C13: on a GCP or Azure instance each attribute is computed from its source
\* at most once (after the first call that returns a value every later call
\* returns the same value, whatever has changed on the host since), and
\* computing one attribute never populates or changes the cache of another.
C13_ComputedOnceInIsolation ==
    [][/\ ComputedOnce
       /\ AnswersFromCache
       /\ \A op \in Accessors :
             (Live /\ ret'[op] # ret[op]) =>
                 \A c \in Caches \ {CacheOf[op]} : self'[c] = self[c]]_vars

\* C13, with the caches an accessor fills on its way: each attribute is
\* computed at most once, a cache that holds a value is never changed, and
\* an accessor fills no cache but its own and those of the attributes it is
\* computed from (the disk inventory for nvme_disk_count and firstNvmeSize,
\* the instance type for nvme_disk_count on Azure).
C13_ComputedOnce ==
    [][/\ ComputedOnce
       /\ AnswersFromCache
       /\ \A op \in Accessors :
             (Live /\ ret'[op] # ret[op]) =>
                 \A c \in Caches \ FilledBy(op) : self'[c] = self[c]]_vars

\* A GCP instance has answered get_local_disks and nvme_disk_count and the
\* /dev listing no longer shows what get_local_disks answered.
C13_Witness ==
    /\ provider = "gcp" /\ Live
    /\ ret["get_local_disks"].kind = "return" /\ ret["nvme_disk_count"].kind = "return"
    /\ ret["get_local_disks"].val # gcp_non_root_nvmes(env).ephemeral

(***************************************************************************)
(* Claims about the Azure suitability verdict                              *)
(***************************************************************************)
\* The Azure types of the hosts whose class is in the Lsv2 disk-count table.
Lsv2Types == {"Standard_L8s_v2", "Standard_L16s"}

\* C14: on Azure is_recommended_instance returns True exactly when the
\* instance class is in the Lsv2 disk-count table and False for every other
\* class.
C14_AzureRecommendedIffLsv2 ==
    (provider = "azure" /\ ret["is_recommended_instance"].kind # "none") =>
        /\ ret["is_recommended_instance"].kind = "return"
        /\ ret["is_recommended_instance"].val = (env.vm_type \in Lsv2Types)

\* The half of C14 about the classes outside the table.
AzureOtherClassesNotRecommended ==
    (provider = "azure" /\ ret["is_recommended_instance"].kind # "none"
        /\ env.vm_type \notin Lsv2Types) =>
            ret["is_recommended_instance"] = Return(FALSE)

(***************************************************************************)
(* Claims about a GCP disk list that cannot be read                        *)
(***************************************************************************)
\* nvme_disk_count was read on a GCP instance and the disk list could not be
\* fetched or understood.
CountedWithoutMetadata ==
    /\ provider = "gcp"
    /\ ret["nvme_disk_count"].kind # "none"
    /\ ~MetadataRead

\* C15: on GCP, when the disk list of the metadata fails to parse (malformed
\* JSON, an entry without "interface") or its fetch raises, nvme_disk_count
\* propagates nothing and returns 0 whatever the OS shows, and that 0 stays
\* its answer for the rest of the instance's lifetime.
C15_UnreadableMetadataCountsZero ==
    /\ [](CountedWithoutMetadata => ret["nvme_disk_count"] = Return(0))
    /\ [][(CountedWithoutMetadata /\ ret["nvme_disk_count"] = Return(0)) =>
              (ret'["nvme_disk_count"] = Return(0) /\ self'.nvmeDiskCount = {0})]_vars

\* A GCP instance on a host showing two non-root NVMe devices has read
\* nvme_disk_count while the fetch of the disk list raised.
C15_Witness ==
    /\ CountedWithoutMetadata
    /\ ret["fetch"].kind = "return" /\ ret["fetch"].val # "ok"
    /\ Cardinality(OsNonRootNvmes) = 2
    /\ ret["nvme_disk_count"] = Return(0)

\* The same on a host whose disk list has an entry without "interface".
UnparsedListReached ==
    ~(/\ CountedWithoutMetadata /\ ret["fetch"] = Return("ok")
      /\ Cardinality(OsNonRootNvmes) = 2 /\ MetadataCount = 2)

(***************************************************************************)
(* Claims about the GCP probe inside the detector                          *)
(***************************************************************************)
\* The GCP probe has run, and what it answered.
GcpProbed == Len(probes) >= 2 /\ probes[2].name = "gcp"
GcpProbe == probes[2]

\* The machine-type fetch of the probe used up its retries on a transport
\* error (urllib.error.URLError that is no HTTPError).
TransportError == "URLError"

\* C16: the GCP probe answers False only for a DNS failure, for an address
\* list without an IPv4 169.254.169.254, or for an HTTP error on
\* machine-type; when the name resolves to 169.254.169.254 and the
\* machine-type fetch ends its retries on a transport error, is_gce_instance
\* raises that error and get_cloud_instance leaves with it: the Azure probe
\* never runs, no class is called, and the unknown-provider error is not
\* raised.
C16_GcpProbeRaisesOnTransportError ==
    GcpProbed =>
        /\ (GcpProbe.answer = Return(FALSE)) =>
              \/ dns.gcp.gaierror
              \/ ~GcpResolves
              \/ GcpProbe.net = "HTTPError"
        /\ (GcpResolves /\ GcpProbe.net = TransportError) =>
              /\ GcpProbe.answer = Raise(TransportError)
              /\ pc = "done"
              /\ ret["get_cloud_instance"] = Raise(TransportError)
              /\ ProbeNames = <<"aws", "gcp">>
              /\ built = <<>>
              /\ self = NoObject

\* The AWS probe said no, the GCP name resolved to the link-local address,
\* and the machine-type fetch ran out of retries on a transport error.
C16_Witness ==
    /\ GcpProbed /\ GcpResolves /\ GcpProbe.net = TransportError
    /\ No(1)
    /\ pc = "done"
    /\ ret["get_cloud_instance"] = Raise(TransportError)

====
